---- MODULE Spec2Model ----
(***************************************************************************)
(* Request-signing module of passkey-signup (src/lib/crypto.ts).           *)
(*                                                                         *)
(* Text is a sequence of character codes, a buffer a sequence of bytes.    *)
(* The curve and the digest are scaled down from 256 to 16 bits so that    *)
(* the arithmetic stays inside TLC's integers: the curve is a short        *)
(* Weierstrass curve with a = -3 and prime order, like P-256, and a        *)
(* scalar, a coordinate and a digest are 2 bytes where P-256 has 32.       *)
(***************************************************************************)
EXTENDS Integers, Sequences, FiniteSets, TLC

(***************************************************************************)
(* Bounds of the model.                                                    *)
(***************************************************************************)
MaxBufLen == 4
MaxStrLen == 3
MaxPairs == 2
MaxCreates == 2
MaxPrepares == 2
MaxSubmits == 2
MaxRuns == 2

(***************************************************************************)
(* Character codes.                                                        *)
(***************************************************************************)
ChPlus == 43
ChMinus == 45
ChSlash == 47
ChEquals == 61
ChUnderscore == 95

\* The digit in upper case.
HexDigitUpperCase(v) == IF v < 10 THEN 48 + v ELSE 55 + v

\* Number.prototype.toString(16) of one hex digit (lowercase).
HexDigit(v) == IF v < 10 THEN 48 + v ELSE 87 + v

\* b.toString(16): no leading zero.
ByteToString16(b) ==
    IF b < 16 THEN <<HexDigit(b)>> ELSE <<HexDigit(b \div 16), HexDigit(b % 16)>>

\* String.prototype.padStart(2, '0') on a string of one or two characters.
PadStart2(s) == IF Len(s) < 2 THEN <<48>> \o s ELSE s

RECURSIVE Concat(_)
\* Array.prototype.join('') of a sequence of texts.
Concat(ss) ==
    IF Len(ss) = 0 THEN <<>>
    ELSE IF Len(ss) = 1 THEN ss[1]
    ELSE LET h == Len(ss) \div 2
         IN  Concat(SubSeq(ss, 1, h)) \o Concat(SubSeq(ss, h + 1, Len(ss)))

\* bytes.map((b) => b.toString(16).padStart(2, '0')).join('')
BytesToHex(bytes) ==
    Concat([i \in 1..Len(bytes) |-> PadStart2(ByteToString16(bytes[i]))])

(***************************************************************************)
(* Base64 and base64url.                                                   *)
(***************************************************************************)
\* The standard base64 alphabet: A-Z a-z 0-9 + /
B64Char(i) ==
    IF i < 26 THEN 65 + i
    ELSE IF i < 52 THEN 71 + i
    ELSE IF i < 62 THEN i - 4
    ELSE IF i = 62 THEN ChPlus
    ELSE ChSlash

\* btoa of a binary string (every character code below 256): every three
\* bytes give four characters, and '=' stands where the last group has no
\* byte.
btoa(s) ==
    [i \in 1..(4 * ((Len(s) + 2) \div 3)) |->
        LET g == (i - 1) \div 4
            j == (i - 1) % 4
            b1 == s[(3 * g) + 1]
            b2 == IF (3 * g) + 2 <= Len(s) THEN s[(3 * g) + 2] ELSE 0
            b3 == IF (3 * g) + 3 <= Len(s) THEN s[(3 * g) + 3] ELSE 0
        IN  IF j = 0 THEN B64Char(b1 \div 4)
            ELSE IF j = 1 THEN B64Char(((b1 % 4) * 16) + (b2 \div 16))
            ELSE IF j = 2 THEN
                (IF (3 * g) + 2 > Len(s) THEN ChEquals
                 ELSE B64Char(((b2 % 16) * 4) + (b3 \div 64)))
            ELSE
                (IF (3 * g) + 3 > Len(s) THEN ChEquals ELSE B64Char(b3 % 64))]

\* The replacement without the g flag: the first occurrence only.
ReplaceFirst(s, from, to) ==
    [i \in 1..Len(s) |->
        IF s[i] = from /\ (\A j \in 1..(i - 1) : s[j] # from) THEN to ELSE s[i]]

\* String.prototype.replace with a global one-character pattern.
ReplaceAll(s, from, to) == [i \in 1..Len(s) |-> IF s[i] = from THEN to ELSE s[i]]

RECURSIVE StripTrailing(_, _)
\* String.prototype.replace(/c+$/, ''): drops the trailing run of c.
StripTrailing(s, c) ==
    IF Len(s) > 0 /\ s[Len(s)] = c THEN StripTrailing(SubSeq(s, 1, Len(s) - 1), c)
    ELSE s

\* A string is a sequence of UTF-16 code units.
IsHighSurrogate(u) == u >= 55296 /\ u <= 56319
IsLowSurrogate(u) == u >= 56320 /\ u <= 57343

\* The unit at i is the first, the second unit of a surrogate pair.
PairStartsAt(str, i) ==
    IsHighSurrogate(str[i]) /\ i < Len(str) /\ IsLowSurrogate(str[i + 1])
PairEndsAt(str, i) ==
    IsLowSurrogate(str[i]) /\ i > 1 /\ IsHighSurrogate(str[i - 1])

\* No surrogate of the string is without its partner.
WellFormed(str) ==
    \A i \in 1..Len(str) :
        /\ IsHighSurrogate(str[i]) => PairStartsAt(str, i)
        /\ IsLowSurrogate(str[i]) => PairEndsAt(str, i)

\* UTF-8 bytes of one code point.
Utf8Char(cp) ==
    IF cp < 128 THEN <<cp>>
    ELSE IF cp < 2048 THEN <<192 + (cp \div 64), 128 + (cp % 64)>>
    ELSE IF cp < 65536 THEN
        <<224 + (cp \div 4096), 128 + ((cp \div 64) % 64), 128 + (cp % 64)>>
    ELSE <<240 + (cp \div 262144), 128 + ((cp \div 4096) % 64),
           128 + ((cp \div 64) % 64), 128 + (cp % 64)>>

\* U+FFFD, which TextEncoder puts for a surrogate without its partner.
ReplacementChar == 65533

\* new TextEncoder().encode(str): the UTF-8 bytes of the code points of str.
Utf8(str) ==
    Concat([i \in 1..Len(str) |->
        IF PairEndsAt(str, i) THEN <<>>
        ELSE IF PairStartsAt(str, i)
             THEN Utf8Char(65536 + ((str[i] - 55296) * 1024) + (str[i + 1] - 56320))
        ELSE IF IsHighSurrogate(str[i]) \/ IsLowSurrogate(str[i])
             THEN Utf8Char(ReplacementChar)
        ELSE Utf8Char(str[i])])

ChPercent == 37

\* A-Z a-z 0-9 - _ . ! ~ * ' ( ): what encodeURIComponent leaves as it is.
UriUnreserved(b) ==
    \/ (b >= 65 /\ b <= 90) \/ (b >= 97 /\ b <= 122) \/ (b >= 48 /\ b <= 57)
    \/ b \in {45, 95, 46, 33, 126, 42, 39, 40, 41}

HexDigitUpper(v) == IF v < 10 THEN 48 + v ELSE 55 + v

\* encodeURIComponent(str) throws a URIError for a lone surrogate.
EncodeURIComponentThrows(str) == ~ WellFormed(str)

\* encodeURIComponent(str) of a well-formed string: every UTF-8 byte that
\* is not unreserved as %XX.
encodeURIComponent(str) ==
    LET bytes == Utf8(str)
    IN  Concat([i \in 1..Len(bytes) |->
            IF UriUnreserved(bytes[i]) THEN <<bytes[i]>>
            ELSE <<ChPercent, HexDigitUpper(bytes[i] \div 16), HexDigitUpper(bytes[i] % 16)>>])

IsHexChar(c) == (c >= 48 /\ c <= 57) \/ (c >= 65 /\ c <= 70) \/ (c >= 97 /\ c <= 102)
HexValueOf(c) == IF c <= 57 THEN c - 48 ELSE IF c <= 70 THEN c - 55 ELSE c - 87

\* unescape(s): every %XX becomes the character XX (the %uXXXX form does
\* not occur where every '%' of the text was itself written as %25).
unescape(s) ==
    LET EscapeAt(i) == /\ i >= 1 /\ i + 2 <= Len(s)
                       /\ s[i] = ChPercent /\ IsHexChar(s[i + 1]) /\ IsHexChar(s[i + 2])
    IN  Concat([i \in 1..Len(s) |->
            IF EscapeAt(i) THEN <<(HexValueOf(s[i + 1]) * 16) + HexValueOf(s[i + 2])>>
            ELSE IF EscapeAt(i - 1) \/ EscapeAt(i - 2) THEN <<>>
            ELSE <<s[i]>>])

\* The string handed to btoa without the UTF-8 step: the low byte of every
\* unit.
toBase64UrlLatin1(str) ==
    LET b64 == btoa([i \in 1..Len(str) |-> str[i] % 256])
    IN  StripTrailing(ReplaceAll(ReplaceAll(b64, ChPlus, ChMinus),
                                 ChSlash, ChUnderscore), ChEquals)

\* btoa(unescape(encodeURIComponent(str))), then
\* b64.replace(/\+/g, '-').replace(/\//g, '_').replace(/=+$/, '')
toBase64Url(str) ==
    LET b64 == btoa(unescape(encodeURIComponent(str)))
    IN  StripTrailing(ReplaceAll(ReplaceAll(b64, ChPlus, ChMinus),
                                 ChSlash, ChUnderscore), ChEquals)

\* The loop with i < bytes.byteLength - 1: the last byte is left out.
BinaryStringShort(bytes) == [i \in 1..(Len(bytes) - 1) |-> bytes[i]]

\* binary += String.fromCharCode(bytes[i]) for every byte, in order.
BinaryString(bytes) == [i \in 1..Len(bytes) |-> bytes[i]]

\* btoa(binary), then the same three replacements.
toBase64UrlBytes(buffer) ==
    LET b64 == btoa(BinaryString(buffer))
    IN  StripTrailing(ReplaceAll(ReplaceAll(b64, ChPlus, ChMinus),
                                 ChSlash, ChUnderscore), ChEquals)

\* The most arguments a call takes before the engine throws a RangeError
\* (tens of thousands in the engines; short here, as the buffers are).
ArgumentLimit == 3

\* String.fromCharCode(...bytes) throws when bytes has more elements than a
\* call takes arguments.
SpreadThrows(bytes) == Len(bytes) > ArgumentLimit

\* String.fromCharCode(...bytes): one character for each argument.
FromCharCodeSpread(bytes) == [i \in 1..Len(bytes) |-> bytes[i] % 65536]

\* toBase64Url of the PasskeySignup component: btoa of the spread, then the
\* three replacements.
localToBase64Url(buffer) ==
    LET binary == FromCharCodeSpread(buffer)
    IN  StripTrailing(ReplaceAll(ReplaceAll(btoa(binary), ChPlus, ChMinus),
                                 ChSlash, ChUnderscore), ChEquals)

(***************************************************************************)
(* Big numbers (bn.js, as elliptic uses it).                               *)
(***************************************************************************)
\* parseHex4Bits: the value of one character of a hex string; a character
\* that is no hex digit is not rejected.
HexCharValue(c) ==
    IF c >= 65 /\ c <= 70 THEN c - 55
    ELSE IF c >= 97 /\ c <= 102 THEN c - 87
    ELSE (c - 48) % 16

RECURSIVE BNFromHex(_)
\* new BN(str, 16)
BNFromHex(str) ==
    IF Len(str) = 0 THEN 0
    ELSE (BNFromHex(SubSeq(str, 1, Len(str) - 1)) * 16) + HexCharValue(str[Len(str)])

RECURSIVE BNDigits16(_)
\* The hex digits of a positive number, most significant first.
BNDigits16(v) ==
    IF v = 0 THEN <<>> ELSE BNDigits16(v \div 16) \o <<HexDigit(v % 16)>>

RECURSIVE PadToMultiple(_, _)
\* while (out.length % padding !== 0) out = '0' + out
PadToMultiple(out, padding) ==
    IF Len(out) % padding # 0 THEN PadToMultiple(<<48>> \o out, padding) ELSE out

\* BN.prototype.toString(16, padding)
BNToString16(v, padding) ==
    PadToMultiple(IF v = 0 THEN <<48>> ELSE BNDigits16(v), padding)

RECURSIVE BNBytes(_)
\* The bytes of a positive number, most significant first.
BNBytes(v) == IF v = 0 THEN <<>> ELSE BNBytes(v \div 256) \o <<v % 256>>

\* BN.prototype.byteLength
BNByteLength(v) == Len(BNBytes(v))

\* BN.prototype.bitLength, for a number below 2^24: the number of powers of
\* two that are not above it.
BNBitLength(v) == Cardinality({b \in 0..23 : 2^b <= v})

RECURSIVE ZeroBytes(_)
ZeroBytes(k) == IF k <= 0 THEN <<>> ELSE <<0>> \o ZeroBytes(k - 1)

\* BN.prototype.toArray('be', length): left-padded with zero bytes to length.
BNToArrayLen(v, length) == ZeroBytes(length - BNByteLength(v)) \o BNBytes(v)

\* BN.prototype.toArray(): at least one byte.
BNToArray(v) == IF v = 0 THEN <<0>> ELSE BNBytes(v)

RECURSIVE BNShiftRight(_, _)
\* BN.prototype.ushrn
BNShiftRight(v, bits) == IF bits <= 0 THEN v ELSE BNShiftRight(v \div 2, bits - 1)

RECURSIVE PowLoop(_, _, _, _)
\* Square and multiply, lowest bit first: acc is the product so far, base
\* the number squared once for every bit passed.  Both are residues.
PowLoop(acc, base, e, m) ==
    IF e = 0 THEN acc
    ELSE LET acc2 == IF e % 2 = 1 THEN (acc * base) % m ELSE acc
             base2 == (base * base) % m
         IN  IF acc2 < m /\ base2 < m THEN PowLoop(acc2, base2, e \div 2, m) ELSE 0

\* b to the power e, modulo m.
PowMod(b, e, m) == PowLoop(1 % m, b % m, e, m)

(***************************************************************************)
(* The curve: new EC('p256'), scaled down.  y^2 = x^3 + a*x + b over the   *)
(* field of CurveP elements, base point G of prime order CurveN.           *)
(***************************************************************************)
CurveP == 32771
CurveA == 32768
CurveB == 83
CurveN == 32801
CurveGx == 1
CurveGy == 9

\* this.nh = this.n.ushrn(1)
CurveNH == CurveN \div 2

\* The inverses modulo the prime of the field and modulo the order, which
\* are primes: the inverse of v modulo m is v to the power m - 2.
InverseModP == [v \in 0..(CurveP - 1) |-> PowMod(v, CurveP - 2, CurveP)]
InverseModN == [v \in 0..(CurveN - 1) |-> PowMod(v, CurveN - 2, CurveN)]

\* BN.prototype.invm, for the two moduli in use.
InvMod(v, m) == IF m = CurveP THEN InverseModP[v % CurveP] ELSE InverseModN[v % CurveN]

Infinity == [inf |-> TRUE, x |-> 0, y |-> 0]
Point(px, py) == [inf |-> FALSE, x |-> px, y |-> py]
CurveG == Point(CurveGx, CurveGy)

OnCurve(pt) ==
    \/ pt.inf
    \/ (pt.y * pt.y) % CurveP
         = ((((((pt.x * pt.x) % CurveP) * pt.x) % CurveP)
              + ((CurveA * pt.x) % CurveP)) + CurveB) % CurveP

\* Point.prototype.dbl
PointDbl(pt) ==
    IF pt.inf \/ pt.y = 0 THEN Infinity
    ELSE LET num == ((3 * ((pt.x * pt.x) % CurveP)) + CurveA) % CurveP
             lam == (num * InvMod((2 * pt.y) % CurveP, CurveP)) % CurveP
             x3 == (((lam * lam) % CurveP) + (2 * (CurveP - pt.x))) % CurveP
             y3 == (((lam * ((pt.x + (CurveP - x3)) % CurveP)) % CurveP)
                      + (CurveP - pt.y)) % CurveP
         IN  Point(x3, y3)

\* Point.prototype.add
PointAdd(p1, p2) ==
    IF p1.inf THEN p2
    ELSE IF p2.inf THEN p1
    ELSE IF p1.x = p2.x THEN
        (IF p1.y = p2.y THEN PointDbl(p1) ELSE Infinity)
    ELSE LET num == (p2.y + (CurveP - p1.y)) % CurveP
             den == (p2.x + (CurveP - p1.x)) % CurveP
             lam == (num * InvMod(den, CurveP)) % CurveP
             x3 == (((lam * lam) % CurveP) + (CurveP - p1.x) + (CurveP - p2.x)) % CurveP
             y3 == (((lam * ((p1.x + (CurveP - x3)) % CurveP)) % CurveP)
                      + (CurveP - p1.y)) % CurveP
         IN  Point(x3, y3)

RECURSIVE MulLoop(_, _, _)
\* The binary method, lowest bit first: acc is the sum so far, base the
\* point doubled once for every bit passed.  Both stay on the curve.
MulLoop(acc, base, k) ==
    IF k = 0 THEN acc
    ELSE LET acc2 == IF k % 2 = 1 THEN PointAdd(acc, base) ELSE acc
             base2 == PointDbl(base)
         IN  IF OnCurve(acc2) /\ OnCurve(base2)
             THEN MulLoop(acc2, base2, k \div 2)
             ELSE Infinity

\* Point.prototype.mul
PointMul(pt, k) == MulLoop(Infinity, pt, k)

\* utils.encode(arr, 'hex'): two characters for every byte.
ToHex(arr) == Concat([i \in 1..Len(arr) |-> PadStart2(ByteToString16(arr[i]))])

\* Point.prototype.encode('hex', true) of a finite point: 02 or 03 by the
\* parity of y, then x on as many bytes as the field has.
EncodeCompressed(pt) ==
    ToHex(<<IF pt.y % 2 = 0 THEN 2 ELSE 3>> \o BNToArrayLen(pt.x, BNByteLength(CurveP)))

\* Point.prototype.encode('hex', false): 04, then x, then y.
EncodeUncompressed(pt) ==
    ToHex(<<4>> \o BNToArrayLen(pt.x, BNByteLength(CurveP))
              \o BNToArrayLen(pt.y, BNByteLength(CurveP)))

(***************************************************************************)
(* Key pairs (elliptic's KeyPair).                                         *)
(***************************************************************************)
\* ec.keyFromPrivate(str, 'hex'): this.priv = new BN(key, 16).umod(n)
keyFromPrivate(str) == BNFromHex(str) % CurveN

\* keyPair.getPrivate('hex'): this.priv.toString(16, 2)
getPrivateHex(priv) == BNToString16(priv, 2)

\* key.getPublic(): this.pub = this.ec.g.mul(this.priv)
getPublicPoint(priv) == PointMul(CurveG, priv)

\* key.getPublic(true, 'hex') can be evaluated: encoding the point at
\* infinity reads the x of a point that has none and raises a TypeError.
CanEncodePublic(priv) == ~ getPublicPoint(priv).inf

\* key.getPublic(true, 'hex')
getPublicCompressedHex(priv) == EncodeCompressed(getPublicPoint(priv))

(***************************************************************************)
(* The digest: crypto.subtle.digest('SHA-256', data), scaled down to       *)
(* DigestLen bytes.  A fixed function of the bytes, and nothing else.      *)
(***************************************************************************)
DigestLen == 2
DigestIV == 58288

RECURSIVE DigestValue(_)
DigestValue(data) ==
    IF Len(data) = 0 THEN DigestIV
    ELSE ((DigestValue(SubSeq(data, 1, Len(data) - 1)) * 33) + data[Len(data)] + 7) % 65536

\* The hash buffer: DigestLen bytes, most significant first.
SubtleDigest(data) == BNToArrayLen(DigestValue(data), DigestLen)

\* The hex text without padStart: a byte below 16 gives one character.
sha256Unpadded(input) ==
    LET hashBuffer == SubtleDigest(Utf8(input))
    IN  Concat([i \in 1..Len(hashBuffer) |-> ByteToString16(hashBuffer[i])])

\* sha256(input): the digest of the UTF-8 bytes of input, every byte as
\* b.toString(16).padStart(2, '0'), joined.
sha256(input) ==
    LET hashBuffer == SubtleDigest(Utf8(input))
    IN  Concat([i \in 1..Len(hashBuffer) |-> PadStart2(ByteToString16(hashBuffer[i]))])

(***************************************************************************)
(* ECDSA signing (elliptic's EC.prototype.sign and Signature).             *)
(***************************************************************************)
\* EC.prototype._truncateToN(msg, truncOnly)
TruncateToN(msg, truncOnly) ==
    LET delta == (BNByteLength(msg) * 8) - BNBitLength(CurveN)
        m == IF delta > 0 THEN BNShiftRight(msg, delta) ELSE msg
    IN  IF ~ truncOnly /\ m >= CurveN THEN m - CurveN ELSE m

\* One turn of the loop of EC.prototype.sign with the bytes kDraw from the
\* generator: ok is FALSE where the loop says continue.
SignAttempt(priv, msgHex, kDraw, canonical) ==
    LET msg == TruncateToN(BNFromHex(msgHex), FALSE)
        k == TruncateToN(kDraw, TRUE)
        kp == PointMul(CurveG, k)
        r == kp.x % CurveN
        s0 == (InvMod(k, CurveN) * ((((r * priv) % CurveN) + msg) % CurveN)) % CurveN
        s == IF canonical /\ s0 > CurveNH THEN CurveN - s0 ELSE s0
    IN  IF k <= 1 \/ k >= CurveN - 1 THEN [ok |-> FALSE, r |-> 0, s |-> 0]
        ELSE IF kp.inf \/ r = 0 \/ s0 = 0 THEN [ok |-> FALSE, r |-> 0, s |-> 0]
        ELSE [ok |-> TRUE, r |-> r, s |-> s]

\* key.sign(hashHex) without the canonical option.
keySignAnyS(priv, hashHex, kDraw) == SignAttempt(priv, hashHex, kDraw, FALSE)

\* key.sign(hashHex, { canonical: true })
keySign(priv, hashHex, kDraw) == SignAttempt(priv, hashHex, kDraw, TRUE)

RECURSIVE rmPadding(_)
\* rmPadding of signature.js: drops leading zero bytes that precede a byte
\* without the high bit.
rmPadding(buf) ==
    IF Len(buf) > 1 /\ buf[1] = 0 /\ buf[2] < 128 THEN rmPadding(Tail(buf)) ELSE buf

\* One integer of the DER form: its bytes, with a zero byte in front when
\* the high bit of the first is set.
DerInteger(v) ==
    LET a == BNToArray(v)
    IN  rmPadding(IF a[1] >= 128 THEN <<0>> \o a ELSE a)

\* constructLength, short form.
DerLength(len) == <<len>>

\* The two integers in the other order: 30 len 02 len s 02 len r
toDERHexSwapped(r, s) ==
    LET rb == DerInteger(r)
        sb == DerInteger(s)
        backHalf == (<<2>> \o DerLength(Len(sb)) \o sb) \o (<<2>> \o DerLength(Len(rb)) \o rb)
    IN  ToHex((<<48>> \o DerLength(Len(backHalf))) \o backHalf)

\* sig.toDER('hex'): 30 len 02 len r 02 len s
toDERHex(r, s) ==
    LET rb == DerInteger(r)
        sb == DerInteger(s)
        backHalf == (<<2>> \o DerLength(Len(rb)) \o rb) \o (<<2>> \o DerLength(Len(sb)) \o sb)
    IN  ToHex((<<48>> \o DerLength(Len(backHalf))) \o backHalf)

(***************************************************************************)
(* The envelope and its text.                                              *)
(***************************************************************************)
\* 'SIGNATURE_SCHEME_TK_API_P256'
SignatureScheme == <<83, 73, 71, 78, 65, 84, 85, 82, 69, 95, 83, 67, 72, 69, 77, 69, 95, 84, 75, 95, 65, 80, 73, 95, 80, 50, 53, 54>>

\* "publicKey", "scheme", "signature"
KeyPublicKey == <<112, 117, 98, 108, 105, 99, 75, 101, 121>>
KeyScheme == <<115, 99, 104, 101, 109, 101>>
KeySignature == <<115, 105, 103, 110, 97, 116, 117, 114, 101>>

ChQuote == 34
ChBackslash == 92

\* JSON.stringify of a string without control characters.
JsonString(str) ==
    <<ChQuote>>
      \o Concat([i \in 1..Len(str) |->
                   IF str[i] = ChQuote \/ str[i] = ChBackslash
                   THEN <<ChBackslash, str[i]>> ELSE <<str[i]>>])
      \o <<ChQuote>>

\* The literal with its properties in alphabetical order of the values'
\* names: publicKey, signature, scheme.
StampJsonReordered(publicKey, scheme, signature) ==
    <<123>> \o JsonString(KeyPublicKey) \o <<58>> \o JsonString(publicKey)
      \o <<44>> \o JsonString(KeySignature) \o <<58>> \o JsonString(signature)
      \o <<44>> \o JsonString(KeyScheme) \o <<58>> \o JsonString(scheme)
      \o <<125>>

\* JSON.stringify(stampObj): the properties in the order of the literal.
StampJson(publicKey, scheme, signature) ==
    <<123>> \o JsonString(KeyPublicKey) \o <<58>> \o JsonString(publicKey)
      \o <<44>> \o JsonString(KeyScheme) \o <<58>> \o JsonString(scheme)
      \o <<44>> \o JsonString(KeySignature) \o <<58>> \o JsonString(signature)
      \o <<125>>

(***************************************************************************)
(* The library as its callers see it: key pairs that generateApiKeyPair    *)
(* has returned, and calls of the exported functions.  A call of           *)
(* signPayloadWithApiKey runs to its await of the digest, is resumed when  *)
(* the digest is there, and settles.                                       *)
(***************************************************************************)
VARIABLES pairs, calls

\* The components that call the library: the configuration they read their
\* keys from, the step-by-step wizard, the one-click flows.
VARIABLES config, wiz, oc

uiVars == <<config, wiz, oc>>
vars == <<pairs, calls, config, wiz, oc>>

\* The calls in flight at a time: one where a function is looked at on its
\* own, two where calls are interleaved.
CallIds == {"c1", "c2"}
SoloCalls == {"c1"}

\* Bytes the buffers are made of: 251 gives '+', 255 gives '/'.
ByteSamples == {0, 251, 255}

\* Code units the strings are made of: 'x', '?', e acute, the euro
\* sign ('xx?' gives '/'), and the two surrogates of
\* U+1F600.
CharSamples == {120, 63, 233, 8364, 55357, 56832}

\* Payloads to sign: '', 'x', 'hi', e acute, 'hello', 'sign'
Payloads == {<<>>, <<120>>, <<104, 105>>, <<233>>,
             <<104, 101, 108, 108, 111>>, <<115, 105, 103, 110>>}

\* Outputs of the random generator in genKeyPair, as numbers.
DrbgDraws == {0, 255, 32799, 40000}

\* Outputs of the nonce generator in sign, as numbers.
NonceDraws == {1, 2, 12345, 32799, 32800, 50000}

\* Private key strings besides the generated ones: '0000'; '8021', the hex
\* of the order of the curve; '8022', the order and one; 'zz', no hex text.
ExtraPrivateKeys == {<<48, 48, 48, 48>>, <<56, 48, 50, 49>>, <<56, 48, 50, 50>>, <<122, 122>>}

\* Public key strings besides the generated ones: '02', too short, and
\* '03zz01', no hex text.
ExtraPublicKeys == {<<48, 50>>, <<48, 51, 122, 122, 48, 49>>}

RECURSIVE SeqsUpTo(_, _)
\* The sequences over S of length at most k.
SeqsUpTo(S, k) ==
    IF k = 0 THEN {<<>>}
    ELSE LET shorter == SeqsUpTo(S, k - 1)
         IN  shorter \cup {Append(q, e) : q \in {t \in shorter : Len(t) = k - 1}, e \in S}

Buffers == SeqsUpTo(ByteSamples, MaxBufLen)
Strings == SeqsUpTo(CharSamples, MaxStrLen)

NoError == [name |-> "none", message |-> "", expected |-> <<>>, got |-> <<>>]

NoDetails == [publicKey |-> <<>>, scheme |-> <<>>, signature |-> <<>>, payloadHash |-> <<>>]
NoResult == [signature |-> <<>>, details |-> NoDetails]
NoSig == [ok |-> FALSE, r |-> 0, s |-> 0]

IdleCall ==
    [fn |-> "none", pc |-> "idle",
     payload |-> <<>>, apiPrivateKey |-> <<>>, apiPublicKey |-> <<>>,
     arg |-> <<>>, ret |-> <<>>,
     steps |-> <<>>, key |-> 0, hashHex |-> <<>>, signArg |-> <<>>, sig |-> NoSig,
     result |-> NoResult, error |-> NoError, entered |-> 0]

\* null, and a value that is not null.
JsNull == [null |-> TRUE]

\* config when the environment has no keys: process.env... || ""
MissingConfig == [apiPrivateKey |-> <<>>, apiPublicKey |-> <<>>]

\* The operation the wizard has in flight: none.
NoOp == [kind |-> "none", payload |-> <<>>]

\* The wizard as useState initializes it; requests are the bodies of the
\* submit requests sent so far, creates and prepares count the credentials
\* created and the prepare responses received.
WizInit ==
    [step |-> "create", loading |-> FALSE, error |-> "",
     passkeyData |-> JsNull, prepareResponse |-> JsNull,
     signatureData |-> JsNull, result |-> JsNull,
     op |-> NoOp, requests |-> {}, creates |-> 0, prepares |-> 0, submits |-> 0]

\* A one-click component as useState initializes it: kind is "toast" for
\* registerPasskey and "steps" for the component with the steps create and
\* complete; pc is where the handler is suspended, log the external steps
\* of the handler and their outcomes, in order.
OcInit(kind) ==
    [kind |-> kind, pc |-> "idle", loading |-> FALSE, error |-> "",
     showToast |-> FALSE, timers |-> 0, step |-> "create", result |-> JsNull,
     prepareData |-> JsNull, signData |-> JsNull, log |-> <<>>, runs |-> 0]

Init ==
    /\ pairs = {}
    /\ calls = [c \in CallIds |-> IdleCall]
    /\ config = MissingConfig
    /\ wiz = WizInit
    /\ oc = OcInit("toast")

\* getPublic('hex') without the compact flag: the uncompressed point.
generateApiKeyPairUncompressed(d) ==
    LET keyPair == d + 1
    IN  [publicKey |-> ToHex(EncodeUncompressed(getPublicPoint(keyPair))),
         privateKey |-> getPrivateHex(keyPair)]

\* generateApiKeyPair with the draw d accepted by the loop of genKeyPair,
\* which adds one to it.
generateApiKeyPair(d) ==
    LET keyPair == d + 1
    IN  [publicKey |-> getPublicCompressedHex(keyPair),
         privateKey |-> getPrivateHex(keyPair)]

\* genKeyPair draws again while the draw is above n - 2.
GenerateApiKeyPair(d) ==
    /\ d <= CurveN - 2
    /\ Cardinality(pairs) < MaxPairs
    /\ pairs' = pairs \cup {generateApiKeyPair(d)}
    /\ UNCHANGED <<calls, uiVars>>

\* The payload hashed before the public key is compared.
SignEntryDigestFirst(apiPrivateKey, apiPublicKey) ==
    IF apiPrivateKey = <<>> \/ apiPublicKey = <<>> THEN
        [pc |-> "thrown", key |-> 0, steps |-> <<"presence">>,
         error |-> [name |-> "Error", message |-> "API key pair not found",
                    expected |-> <<>>, got |-> <<>>]]
    ELSE LET key == keyFromPrivate(apiPrivateKey)
         IN  IF ~ CanEncodePublic(key) THEN
                 [pc |-> "thrown", key |-> key, steps |-> <<"presence", "derive">>,
                  error |-> [name |-> "TypeError", message |-> "",
                             expected |-> <<>>, got |-> <<>>]]
             ELSE IF getPublicCompressedHex(key) # apiPublicKey THEN
                 [pc |-> "thrown", key |-> key,
                  steps |-> <<"presence", "derive", "digest", "compare">>,
                  error |-> [name |-> "Error",
                             message |-> "Public key does not match private key",
                             expected |-> getPublicCompressedHex(key),
                             got |-> apiPublicKey]]
             ELSE
                 [pc |-> "digest", key |-> key,
                  steps |-> <<"presence", "derive", "digest", "compare">>,
                  error |-> NoError]

\* The presence check with && for ||: only a call without both keys is
\* turned away by it.
SignEntryBothMissing(apiPrivateKey, apiPublicKey) ==
    IF apiPrivateKey = <<>> /\ apiPublicKey = <<>> THEN
        [pc |-> "thrown", key |-> 0, steps |-> <<"presence">>,
         error |-> [name |-> "Error", message |-> "API key pair not found",
                    expected |-> <<>>, got |-> <<>>]]
    ELSE LET key == keyFromPrivate(apiPrivateKey)
         IN  IF ~ CanEncodePublic(key) THEN
                 [pc |-> "thrown", key |-> key, steps |-> <<"presence", "derive">>,
                  error |-> [name |-> "TypeError", message |-> "",
                             expected |-> <<>>, got |-> <<>>]]
             ELSE IF getPublicCompressedHex(key) # apiPublicKey THEN
                 [pc |-> "thrown", key |-> key,
                  steps |-> <<"presence", "derive", "compare">>,
                  error |-> [name |-> "Error",
                             message |-> "Public key does not match private key",
                             expected |-> getPublicCompressedHex(key),
                             got |-> apiPublicKey]]
             ELSE
                 [pc |-> "digest", key |-> key,
                  steps |-> <<"presence", "derive", "compare">>,
                  error |-> NoError]

\* The message of the mismatch with the received key in both places.
SignEntryGotTwice(apiPrivateKey, apiPublicKey) ==
    IF apiPrivateKey = <<>> \/ apiPublicKey = <<>> THEN
        [pc |-> "thrown", key |-> 0, steps |-> <<"presence">>,
         error |-> [name |-> "Error", message |-> "API key pair not found",
                    expected |-> <<>>, got |-> <<>>]]
    ELSE LET key == keyFromPrivate(apiPrivateKey)
         IN  IF ~ CanEncodePublic(key) THEN
                 [pc |-> "thrown", key |-> key, steps |-> <<"presence", "derive">>,
                  error |-> [name |-> "TypeError", message |-> "",
                             expected |-> <<>>, got |-> <<>>]]
             ELSE IF getPublicCompressedHex(key) # apiPublicKey THEN
                 [pc |-> "thrown", key |-> key,
                  steps |-> <<"presence", "derive", "compare">>,
                  error |-> [name |-> "Error",
                             message |-> "Public key does not match private key",
                             expected |-> apiPublicKey,
                             got |-> apiPublicKey]]
             ELSE
                 [pc |-> "digest", key |-> key,
                  steps |-> <<"presence", "derive", "compare">>,
                  error |-> NoError]

\* The function without the comparison of the derived and the supplied key.
SignEntryUncompared(apiPrivateKey, apiPublicKey) ==
    IF apiPrivateKey = <<>> \/ apiPublicKey = <<>> THEN
        [pc |-> "thrown", key |-> 0, steps |-> <<"presence">>,
         error |-> [name |-> "Error", message |-> "API key pair not found",
                    expected |-> <<>>, got |-> <<>>]]
    ELSE LET key == keyFromPrivate(apiPrivateKey)
         IN  IF ~ CanEncodePublic(key) THEN
                 [pc |-> "thrown", key |-> key, steps |-> <<"presence", "derive">>,
                  error |-> [name |-> "TypeError", message |-> "",
                             expected |-> <<>>, got |-> <<>>]]
             ELSE
                 [pc |-> "digest", key |-> key,
                  steps |-> <<"presence", "derive">>,
                  error |-> NoError]

\* signPayloadWithApiKey up to its await: the presence check, the derivation
\* of the public key, the comparison.  pc is "thrown" where it throws and
\* "digest" where it goes on to sha256(payload).
SignEntry(apiPrivateKey, apiPublicKey) ==
    IF apiPrivateKey = <<>> \/ apiPublicKey = <<>> THEN
        [pc |-> "thrown", key |-> 0, steps |-> <<"presence">>,
         error |-> [name |-> "Error", message |-> "API key pair not found",
                    expected |-> <<>>, got |-> <<>>]]
    ELSE LET key == keyFromPrivate(apiPrivateKey)
         IN  IF ~ CanEncodePublic(key) THEN
                 [pc |-> "thrown", key |-> key, steps |-> <<"presence", "derive">>,
                  error |-> [name |-> "TypeError", message |-> "",
                             expected |-> <<>>, got |-> <<>>]]
             ELSE IF getPublicCompressedHex(key) # apiPublicKey THEN
                 [pc |-> "thrown", key |-> key,
                  steps |-> <<"presence", "derive", "compare">>,
                  error |-> [name |-> "Error",
                             message |-> "Public key does not match private key",
                             expected |-> getPublicCompressedHex(key),
                             got |-> apiPublicKey]]
             ELSE
                 [pc |-> "digest", key |-> key,
                  steps |-> <<"presence", "derive", "compare">>,
                  error |-> NoError]

SignCall(c, payload, apiPrivateKey, apiPublicKey) ==
    /\ calls[c].pc = "idle"
    /\ LET e == SignEntry(apiPrivateKey, apiPublicKey)
       IN  calls' = [calls EXCEPT ![c] =
                [@ EXCEPT !.fn = "signPayloadWithApiKey", !.pc = e.pc,
                          !.payload = payload,
                          !.apiPrivateKey = apiPrivateKey,
                          !.apiPublicKey = apiPublicKey,
                          !.key = e.key, !.steps = e.steps, !.error = e.error,
                          !.entered = @ + 1]]
    /\ UNCHANGED <<pairs, uiVars>>

\* The hex text kept in one place for all calls: every call that has its
\* text and has not signed yet gets the text of the call resumed last.
DigestResolveShared(c) ==
    /\ calls[c].pc = "digest"
    /\ \E h \in {sha256(calls[c].payload)} :
          calls' = [d \in CallIds |->
              IF d = c
              THEN [calls[d] EXCEPT !.pc = "hashed", !.hashHex = h,
                                    !.steps = Append(@, "digest")]
              ELSE IF calls[d].pc = "hashed" THEN [calls[d] EXCEPT !.hashHex = h]
              ELSE calls[d]]
    /\ UNCHANGED <<pairs, uiVars>>

\* The digest is there: sha256 returns the hex text, which is what the
\* await in signPayloadWithApiKey is resumed with.
DigestResolve(c) ==
    /\ calls[c].pc = "digest"
    /\ calls' = [calls EXCEPT ![c] =
            [@ EXCEPT !.pc = "hashed", !.hashHex = sha256(calls[c].payload),
                      !.steps = Append(@, "digest")]]
    /\ UNCHANGED <<pairs, uiVars>>

\* The argument of key.sign.
SignArgument(payload, hashHex) == hashHex

\* The value signPayloadWithApiKey returns for the signature sig.
SignResult(apiPublicKey, hashHex, sig) ==
    LET derHex == toDERHex(sig.r, sig.s)
        stampObj == [publicKey |-> apiPublicKey, scheme |-> SignatureScheme,
                     signature |-> derHex]
    IN  [signature |->
             toBase64Url(StampJson(stampObj.publicKey, stampObj.scheme, stampObj.signature)),
         details |-> [publicKey |-> apiPublicKey, scheme |-> stampObj.scheme,
                      signature |-> derHex, payloadHash |-> hashHex]]

\* The rest of signPayloadWithApiKey; kDraw is the draw of the nonce
\* generator that the loop of sign accepts.
SignResume(c, kDraw) ==
    /\ calls[c].pc = "hashed"
    /\ \E signArg \in {SignArgument(calls[c].payload, calls[c].hashHex)} :
       \E sig \in {keySign(calls[c].key, signArg, kDraw)} :
       \E result \in {SignResult(calls[c].apiPublicKey, calls[c].hashHex, sig)} :
           /\ sig.ok
           /\ calls' = [calls EXCEPT ![c] =
                   [@ EXCEPT !.pc = "returned", !.signArg = signArg, !.sig = sig,
                             !.result = result,
                             !.steps = @ \o <<"sign", "encode">>]]
    /\ UNCHANGED <<pairs, uiVars>>

\* An error of the engine, which has a name and no keys to report.
EngineError(name) == [name |-> name, message |-> "", expected |-> <<>>, got |-> <<>>]

\* toBase64Url(str): encodeURIComponent throws for a lone surrogate.
CallToBase64Url(c, str) ==
    /\ calls[c].pc = "idle"
    /\ calls' = [calls EXCEPT ![c] =
            IF EncodeURIComponentThrows(str)
            THEN [@ EXCEPT !.fn = "toBase64Url", !.pc = "thrown", !.arg = str,
                           !.error = EngineError("URIError")]
            ELSE [@ EXCEPT !.fn = "toBase64Url", !.pc = "returned",
                           !.arg = str, !.ret = toBase64Url(str)]]
    /\ UNCHANGED <<pairs, uiVars>>

CallToBase64UrlBytes(c, buffer) ==
    /\ calls[c].pc = "idle"
    /\ calls' = [calls EXCEPT ![c] =
            [@ EXCEPT !.fn = "toBase64UrlBytes", !.pc = "returned",
                      !.arg = buffer, !.ret = toBase64UrlBytes(buffer)]]
    /\ UNCHANGED <<pairs, uiVars>>

\* toBase64Url of the PasskeySignup component: the spread throws for a
\* buffer longer than a call takes arguments.
CallLocalToBase64Url(c, buffer) ==
    /\ calls[c].pc = "idle"
    /\ calls' = [calls EXCEPT ![c] =
            IF SpreadThrows(buffer)
            THEN [@ EXCEPT !.fn = "PasskeySignup.toBase64Url", !.pc = "thrown",
                           !.arg = buffer, !.error = EngineError("RangeError")]
            ELSE [@ EXCEPT !.fn = "PasskeySignup.toBase64Url", !.pc = "returned",
                           !.arg = buffer, !.ret = localToBase64Url(buffer)]]
    /\ UNCHANGED <<pairs, uiVars>>

\* sha256(input) up to its await of crypto.subtle.digest.
CallSha256(c, input) ==
    /\ calls[c].pc = "idle"
    /\ calls' = [calls EXCEPT ![c] =
            [@ EXCEPT !.fn = "sha256", !.pc = "awaitDigest", !.arg = input]]
    /\ UNCHANGED <<pairs, uiVars>>

\* The digest is there and sha256 returns its hex text.
Sha256Resolve(c) ==
    /\ calls[c].pc = "awaitDigest"
    /\ calls' = [calls EXCEPT ![c] =
            [@ EXCEPT !.pc = "returned", !.ret = sha256(calls[c].arg)]]
    /\ UNCHANGED <<pairs, uiVars>>

\* The key strings a caller holds: none, a generated one, an unusable one.
PrivateKeyInputs == {<<>>} \cup {p.privateKey : p \in pairs} \cup ExtraPrivateKeys
PublicKeyInputs == {<<>>} \cup {p.publicKey : p \in pairs} \cup ExtraPublicKeys

Next ==
    \/ \E d \in DrbgDraws : GenerateApiKeyPair(d)
    \/ \E c \in SoloCalls, payload \in Payloads,
          priv \in PrivateKeyInputs, pub \in PublicKeyInputs :
            SignCall(c, payload, priv, pub)
    \/ \E c \in SoloCalls : DigestResolve(c)
    \/ \E c \in SoloCalls, k \in NonceDraws : SignResume(c, k)
    \/ \E c \in SoloCalls, str \in Strings : CallToBase64Url(c, str)
    \/ \E c \in SoloCalls, buffer \in Buffers : CallToBase64UrlBytes(c, buffer)
    \/ \E c \in SoloCalls, buffer \in Buffers : CallLocalToBase64Url(c, buffer)
    \/ \E c \in SoloCalls, input \in Strings : CallSha256(c, input)
    \/ \E c \in SoloCalls : Sha256Resolve(c)

Spec == Init /\ [][Next]_vars

\* Interleaved calls: two calls of signPayloadWithApiKey, each suspended at
\* its await, and calls of generateApiKeyPair, in any order.
ConcurrentPayloads == {<<>>, <<104, 105>>}
ConcurrentDraws == {0, 255}
ConcurrentNonces == {2, 12345}
ConcurrentPrivateKeys == {<<>>, <<48, 48, 48, 48>>} \cup {p.privateKey : p \in pairs}
ConcurrentPublicKeys == {<<>>} \cup {p.publicKey : p \in pairs}

NextConcurrent ==
    \/ \E d \in ConcurrentDraws : GenerateApiKeyPair(d)
    \/ \E c \in CallIds, payload \in ConcurrentPayloads,
          priv \in ConcurrentPrivateKeys, pub \in ConcurrentPublicKeys :
            SignCall(c, payload, priv, pub)
    \/ \E c \in CallIds : DigestResolve(c)
    \/ \E c \in CallIds, k \in ConcurrentNonces : SignResume(c, k)

SpecConcurrent == Init /\ [][NextConcurrent]_vars

(***************************************************************************)
(* The components.  A handler runs from the click to its first await in    *)
(* one step, with the state of the render it was created in, and from the  *)
(* settling of what it awaits to its end in another.                       *)
(***************************************************************************)
\* signPayloadWithApiKey as a caller awaits it, with the nonce draw kDraw:
\* thrown with the error, or resolved with the result.
signPayloadWithApiKey(payload, apiPrivateKey, apiPublicKey, kDraw) ==
    LET entry == SignEntry(apiPrivateKey, apiPublicKey)
        hashHex == sha256(payload)
        sig == keySign(entry.key, SignArgument(payload, hashHex), kDraw)
    IN  IF entry.pc = "thrown"
        THEN [thrown |-> TRUE, accepted |-> TRUE, result |-> NoResult, error |-> entry.error]
        ELSE [thrown |-> FALSE, accepted |-> sig.ok,
              result |-> IF sig.ok THEN SignResult(apiPublicKey, hashHex, sig) ELSE NoResult,
              error |-> NoError]

\* What the environment variables hold: the keys of a pair, nothing, the
\* private key of one pair with the public key of another.
UiConfigs ==
    {[apiPrivateKey |-> generateApiKeyPair(255).privateKey,
      apiPublicKey |-> generateApiKeyPair(255).publicKey],
     MissingConfig,
     [apiPrivateKey |-> generateApiKeyPair(255).privateKey,
      apiPublicKey |-> generateApiKeyPair(0).publicKey]}

\* Nonce draws of the signing in the components.
UiNonces == {2, 12345}

\* payloadToSign of the prepare response with the payloadId n: 'p1', 'p2'...
PayloadOf(n) == <<112, 48 + n>>

\* What awaiting navigator.credentials.create gives, what awaiting a fetch
\* and the body of its response gives.
CredentialOutcomes == {"credential", "null", "NotAllowedError", "NotSupportedError"}
FetchOutcomes == {"ok", "okNull", "notOk", "networkError"}

\* The message setError gets for an outcome that throws.
OutcomeMessage(outcome) ==
    CASE outcome = "null" -> "No credential returned from WebAuthn"
      [] outcome = "NotAllowedError" -> "Authentication cancelled or timed out."
      [] outcome = "NotSupportedError" -> "WebAuthn not supported. Try Chrome, Safari, or Edge."
      [] outcome = "okNull" -> "TypeError"
      [] outcome = "notOk" -> "HTTP 500"
      [] OTHER -> "Failed to fetch"

InitWizard ==
    /\ pairs = {}
    /\ calls = [c \in CallIds |-> IdleCall]
    /\ config \in UiConfigs
    /\ wiz = WizInit
    /\ oc = OcInit("toast")

\* createPasskey, lines 212-246: up to await navigator.credentials.create.
WizClickCreate ==
    /\ wiz.step = "create" /\ ~ wiz.loading
    /\ wiz.creates < MaxCreates
    /\ wiz' = [wiz EXCEPT !.loading = TRUE, !.error = "",
                          !.op = [kind |-> "create", payload |-> <<>>]]
    /\ UNCHANGED <<pairs, calls, config, oc>>

\* createPasskey, lines 248-298.
WizCreateSettle(outcome) ==
    /\ wiz.op.kind = "create"
    /\ wiz' = IF outcome = "credential"
              THEN [wiz EXCEPT !.passkeyData = [null |-> FALSE, credential |-> wiz.creates + 1],
                               !.step = "prepare", !.creates = @ + 1,
                               !.loading = FALSE, !.op = NoOp]
              ELSE [wiz EXCEPT !.error = OutcomeMessage(outcome),
                               !.loading = FALSE, !.op = NoOp]
    /\ UNCHANGED <<pairs, calls, config, oc>>

\* prepareRegistration, lines 302-318: up to await fetch; the button is
\* rendered where step is "prepare" and passkeyData is there.
WizClickPrepare ==
    /\ wiz.step = "prepare" /\ ~ wiz.passkeyData.null /\ ~ wiz.loading
    /\ wiz.prepares < MaxPrepares
    /\ wiz' = [wiz EXCEPT !.loading = TRUE, !.error = "",
                          !.op = [kind |-> "prepare", payload |-> <<>>]]
    /\ UNCHANGED <<pairs, calls, config, oc>>

\* The handler that would drop the credential where the request fails.
WizPrepareSettleClearing(outcome) ==
    /\ wiz.op.kind = "prepare"
    /\ wiz' = IF outcome = "ok"
              THEN [wiz EXCEPT !.prepareResponse =
                                   [null |-> FALSE, payloadId |-> wiz.prepares + 1,
                                    payloadToSign |-> PayloadOf(wiz.prepares + 1)],
                               !.step = "sign", !.prepares = @ + 1,
                               !.loading = FALSE, !.op = NoOp]
              ELSE [wiz EXCEPT !.error = OutcomeMessage(outcome), !.passkeyData = JsNull,
                               !.loading = FALSE, !.op = NoOp]
    /\ UNCHANGED <<pairs, calls, config, oc>>

\* prepareRegistration, lines 320-355: the body of an OK response becomes
\* prepareResponse; a body that is null throws at data.data.
WizPrepareSettle(outcome) ==
    /\ wiz.op.kind = "prepare"
    /\ wiz' = IF outcome = "ok"
              THEN [wiz EXCEPT !.prepareResponse =
                                   [null |-> FALSE, payloadId |-> wiz.prepares + 1,
                                    payloadToSign |-> PayloadOf(wiz.prepares + 1)],
                               !.step = "sign", !.prepares = @ + 1,
                               !.loading = FALSE, !.op = NoOp]
              ELSE [wiz EXCEPT !.error = OutcomeMessage(outcome),
                               !.loading = FALSE, !.op = NoOp]
    /\ UNCHANGED <<pairs, calls, config, oc>>

\* The handler that would keep a signature it has: no call of
\* signPayloadWithApiKey where signatureData is there.
WizClickSignCached ==
    /\ wiz.step = "sign" /\ ~ wiz.prepareResponse.null /\ ~ wiz.loading
    /\ wiz' = IF wiz.signatureData.null
              THEN [wiz EXCEPT !.loading = TRUE, !.error = "",
                               !.op = [kind |-> "sign",
                                       payload |-> wiz.prepareResponse.payloadToSign]]
              ELSE [wiz EXCEPT !.error = "", !.step = "submit"]
    /\ UNCHANGED <<pairs, calls, config, oc>>

\* signPayload, lines 359-370: up to await signPayloadWithApiKey, with the
\* payloadToSign of the prepareResponse of the render.
WizClickSign ==
    /\ wiz.step = "sign" /\ ~ wiz.prepareResponse.null /\ ~ wiz.loading
    /\ wiz' = [wiz EXCEPT !.loading = TRUE, !.error = "",
                          !.op = [kind |-> "sign",
                                  payload |-> wiz.prepareResponse.payloadToSign]]
    /\ UNCHANGED <<pairs, calls, config, oc>>

\* signPayload, lines 372-380.
WizSignSettle(kDraw) ==
    /\ wiz.op.kind = "sign"
    /\ \E r \in {signPayloadWithApiKey(wiz.op.payload, config.apiPrivateKey,
                                       config.apiPublicKey, kDraw)} :
          /\ r.accepted
          /\ wiz' = IF r.thrown
                    THEN [wiz EXCEPT !.error = r.error.message,
                                     !.loading = FALSE, !.op = NoOp]
                    ELSE [wiz EXCEPT !.signatureData =
                                         [null |-> FALSE, signature |-> r.result.signature,
                                          details |-> r.result.details],
                                     !.step = "submit",
                                     !.loading = FALSE, !.op = NoOp]
    /\ UNCHANGED <<pairs, calls, config, oc>>

\* submitRegistration, lines 384-412: the request body is built from the
\* prepareResponse and the signatureData of the render and sent.
WizClickSubmit ==
    /\ wiz.step = "submit" /\ ~ wiz.signatureData.null /\ ~ wiz.prepareResponse.null
    /\ ~ wiz.loading
    /\ wiz.submits < MaxSubmits
    /\ wiz' = [wiz EXCEPT !.loading = TRUE, !.error = "",
                          !.requests = @ \cup {[payloadId |-> wiz.prepareResponse.payloadId,
                                                signature |-> wiz.signatureData.signature]},
                          !.submits = @ + 1,
                          !.op = [kind |-> "submit", payload |-> <<>>]]
    /\ UNCHANGED <<pairs, calls, config, oc>>

\* submitRegistration, lines 414-430: the body of an OK response becomes
\* result, whatever it is.
WizSubmitSettle(outcome) ==
    /\ wiz.op.kind = "submit"
    /\ wiz' = IF outcome = "ok"
              THEN [wiz EXCEPT !.result = [null |-> FALSE, authenticatorId |-> wiz.submits],
                               !.step = "complete", !.loading = FALSE, !.op = NoOp]
              ELSE IF outcome = "okNull"
              THEN [wiz EXCEPT !.result = JsNull,
                               !.step = "complete", !.loading = FALSE, !.op = NoOp]
              ELSE [wiz EXCEPT !.error = OutcomeMessage(outcome),
                               !.loading = FALSE, !.op = NoOp]
    /\ UNCHANGED <<pairs, calls, config, oc>>

\* The Back button, lines 682-696: rendered where step is neither "create"
\* nor "complete", whether or not an operation is in flight.
WizBack ==
    /\ wiz.step \in {"prepare", "sign", "submit"}
    /\ wiz' = [wiz EXCEPT !.step = CASE wiz.step = "prepare" -> "create"
                                     [] wiz.step = "sign" -> "prepare"
                                     [] OTHER -> "sign"]
    /\ UNCHANGED <<pairs, calls, config, oc>>

\* reset, lines 434-441; its button is rendered where step is "complete"
\* and result is there.
WizReset ==
    /\ wiz.step = "complete" /\ ~ wiz.result.null
    /\ wiz' = [wiz EXCEPT !.step = "create", !.passkeyData = JsNull,
                          !.prepareResponse = JsNull, !.signatureData = JsNull,
                          !.result = JsNull, !.error = ""]
    /\ UNCHANGED <<pairs, calls, config, oc>>

\* The panel of the current step is rendered, lines 489, 517, 551, 612, 663.
WizPanelShown ==
    \/ wiz.step = "create"
    \/ wiz.step = "prepare" /\ ~ wiz.passkeyData.null
    \/ wiz.step = "sign" /\ ~ wiz.prepareResponse.null
    \/ wiz.step = "submit" /\ ~ wiz.signatureData.null /\ ~ wiz.prepareResponse.null
    \/ wiz.step = "complete" /\ ~ wiz.result.null

\* The Back button is rendered, line 682.
WizBackShown == wiz.step # "create" /\ wiz.step # "complete"

NextWizard ==
    \/ WizClickCreate
    \/ \E outcome \in CredentialOutcomes : WizCreateSettle(outcome)
    \/ WizClickPrepare
    \/ \E outcome \in FetchOutcomes : WizPrepareSettle(outcome)
    \/ WizClickSign
    \/ \E k \in UiNonces : WizSignSettle(k)
    \/ WizClickSubmit
    \/ \E outcome \in FetchOutcomes : WizSubmitSettle(outcome)
    \/ WizBack
    \/ WizReset

SpecWizard == InitWizard /\ [][NextWizard]_vars

\* The one-click components: "toast" is registerPasskey of
\* PasskeyRegistration.tsx lines 30-126, "steps" is createPasskey of the
\* component with the steps "create" and "complete".  oc.log records every
\* external step as it starts and as it settles, and the success state as
\* it is set.
OcKinds == {"toast", "steps"}
OcEvent(step, what) == [step |-> step, what |-> what]

InitOneClick ==
    /\ pairs = {}
    /\ calls = [c \in CallIds |-> IdleCall]
    /\ config \in UiConfigs
    /\ wiz = WizInit
    /\ \E kind \in OcKinds : oc = OcInit(kind)

\* The catch and finally blocks: setError, setLoading(false).
OcFail(step, message) ==
    [oc EXCEPT !.pc = "idle", !.loading = FALSE, !.error = message,
               !.log = Append(@, OcEvent(step, "fail"))]

\* The click on the button, up to await navigator.credentials.create; the
\* button is disabled while loading and, in the component with steps,
\* rendered at step "create".
OcClick ==
    /\ oc.pc = "idle" /\ ~ oc.loading /\ oc.step = "create"
    /\ oc.runs < MaxRuns
    /\ oc' = [oc EXCEPT !.pc = "credential", !.loading = TRUE, !.error = "",
                        !.runs = @ + 1, !.prepareData = JsNull, !.signData = JsNull,
                        !.log = Append(@, OcEvent("credential", "start"))]
    /\ UNCHANGED <<pairs, calls, config, wiz>>

\* From the credential to the prepare request.
OcCredentialSettle(outcome) ==
    /\ oc.pc = "credential"
    /\ oc' = IF outcome = "credential"
             THEN [oc EXCEPT !.pc = "prepare",
                             !.log = @ \o <<OcEvent("credential", "ok"),
                                            OcEvent("prepare", "start")>>]
             ELSE OcFail("credential", OutcomeMessage(outcome))
    /\ UNCHANGED <<pairs, calls, config, wiz>>

\* From the prepare response to the call of signPayloadWithApiKey.
OcPrepareSettle(outcome) ==
    /\ oc.pc = "prepare"
    /\ oc' = IF outcome = "ok"
             THEN [oc EXCEPT !.pc = "sign",
                             !.prepareData = [null |-> FALSE, payloadId |-> oc.runs,
                                              payloadToSign |-> PayloadOf(oc.runs)],
                             !.log = @ \o <<OcEvent("prepare", "ok"),
                                            OcEvent("sign", "start")>>]
             ELSE OcFail("prepare", OutcomeMessage(outcome))
    /\ UNCHANGED <<pairs, calls, config, wiz>>

\* From the settling of signPayloadWithApiKey to the submit request.
OcSignSettle(kDraw) ==
    /\ oc.pc = "sign"
    /\ \E r \in {signPayloadWithApiKey(oc.prepareData.payloadToSign, config.apiPrivateKey,
                                       config.apiPublicKey, kDraw)} :
          /\ r.accepted
          /\ oc' = IF r.thrown
                   THEN OcFail("sign", r.error.message)
                   ELSE [oc EXCEPT !.pc = "submit",
                                   !.signData = [null |-> FALSE,
                                                 signature |-> r.result.signature],
                                   !.log = @ \o <<OcEvent("sign", "ok"),
                                                  OcEvent("submit", "start")>>]
    /\ UNCHANGED <<pairs, calls, config, wiz>>

\* The success state: the toast and its timer (lines 109-110), or result
\* and step "complete".
OcSuccess(data) ==
    IF oc.kind = "toast"
    THEN [oc EXCEPT !.pc = "idle", !.loading = FALSE, !.showToast = TRUE,
                    !.timers = @ + 1,
                    !.log = @ \o <<OcEvent("submit", "ok"), OcEvent("success", "set")>>]
    ELSE [oc EXCEPT !.pc = "idle", !.loading = FALSE, !.result = data,
                    !.step = "complete",
                    !.log = @ \o <<OcEvent("submit", "ok"), OcEvent("success", "set")>>]

\* The flow that would not look at the status of the submit response.
OcSubmitSettleUnchecked(outcome) ==
    /\ oc.pc = "submit"
    /\ oc' = IF outcome = "networkError"
             THEN OcFail("submit", OutcomeMessage(outcome))
             ELSE IF outcome = "notOk"
             THEN [OcSuccess(JsNull) EXCEPT
                       !.log = oc.log \o <<OcEvent("submit", "fail"),
                                           OcEvent("success", "set")>>]
             ELSE OcSuccess(IF outcome = "ok"
                            THEN [null |-> FALSE, authenticatorId |-> oc.runs]
                            ELSE JsNull)
    /\ UNCHANGED <<pairs, calls, config, wiz>>

\* From the submit response to the end of the handler.
OcSubmitSettle(outcome) ==
    /\ oc.pc = "submit"
    /\ oc' = IF outcome \in {"ok", "okNull"}
             THEN OcSuccess(IF outcome = "ok"
                            THEN [null |-> FALSE, authenticatorId |-> oc.runs]
                            ELSE JsNull)
             ELSE OcFail("submit", OutcomeMessage(outcome))
    /\ UNCHANGED <<pairs, calls, config, wiz>>

\* The callback of setTimeout, line 110.
OcToastTimeout ==
    /\ oc.timers > 0
    /\ oc' = [oc EXCEPT !.showToast = FALSE, !.timers = @ - 1]
    /\ UNCHANGED <<pairs, calls, config, wiz>>

\* reset of the component with steps; its button is rendered where step is
\* "complete" and result is there.
OcReset ==
    /\ oc.kind = "steps" /\ oc.step = "complete" /\ ~ oc.result.null
    /\ oc' = [oc EXCEPT !.step = "create", !.result = JsNull, !.error = ""]
    /\ UNCHANGED <<pairs, calls, config, wiz>>

NextOneClick ==
    \/ OcClick
    \/ \E outcome \in CredentialOutcomes : OcCredentialSettle(outcome)
    \/ \E outcome \in FetchOutcomes : OcPrepareSettle(outcome)
    \/ \E k \in UiNonces : OcSignSettle(k)
    \/ \E outcome \in FetchOutcomes : OcSubmitSettle(outcome)
    \/ OcToastTimeout
    \/ OcReset

SpecOneClick == InitOneClick /\ [][NextOneClick]_vars

(***************************************************************************)
(* What a receiver does with the results: decoding, parsing, verifying.    *)
(* None of this is code of the module; the properties are stated with it.  *)
(***************************************************************************)
SignCalls == {c \in CallIds : calls[c].fn = "signPayloadWithApiKey"}
Settled(c) == calls[c].pc \in {"returned", "thrown"}

MsgNotFound == "API key pair not found"
MsgMismatch == "Public key does not match private key"

\* The value of a hex digit, -1 for any other character.
StrictHexValue(c) ==
    IF c >= 48 /\ c <= 57 THEN c - 48
    ELSE IF c >= 97 /\ c <= 102 THEN c - 87
    ELSE -1

IsHexText(t) == \A i \in 1..Len(t) : StrictHexValue(t[i]) >= 0

\* The bytes of a hex text of even length.
HexToBytes(t) ==
    [i \in 1..(Len(t) \div 2) |->
        (StrictHexValue(t[(2 * i) - 1]) * 16) + StrictHexValue(t[2 * i])]

RECURSIVE BytesToNat(_)
\* The number a byte sequence stands for, most significant byte first.
BytesToNat(bs) ==
    IF Len(bs) = 0 THEN 0
    ELSE (BytesToNat(SubSeq(bs, 1, Len(bs) - 1)) * 256) + bs[Len(bs)]

\* The index of a character in the standard base64 alphabet, -1 if none.
B64Index(c) ==
    IF c >= 65 /\ c <= 90 THEN c - 65
    ELSE IF c >= 97 /\ c <= 122 THEN c - 71
    ELSE IF c >= 48 /\ c <= 57 THEN c + 4
    ELSE IF c = ChPlus THEN 62
    ELSE IF c = ChSlash THEN 63
    ELSE -1

\* Standard base64 decoding of a padded text whose length is a multiple of
\* 4: every four characters give three bytes, less one for every '='.
StdBase64Decode(t) ==
    LET pad == IF Len(t) = 0 THEN 0
               ELSE IF t[Len(t) - 1] = ChEquals THEN 2
               ELSE IF t[Len(t)] = ChEquals THEN 1
               ELSE 0
    IN  [k \in 1..((3 * (Len(t) \div 4)) - pad) |->
            LET g == (k - 1) \div 3
                j == (k - 1) % 3
                i1 == B64Index(t[(4 * g) + 1])
                i2 == B64Index(t[(4 * g) + 2])
                i3 == B64Index(t[(4 * g) + 3])
                i4 == B64Index(t[(4 * g) + 4])
            IN  IF j = 0 THEN (i1 * 4) + (i2 \div 16)
                ELSE IF j = 1 THEN ((i2 % 16) * 16) + (i3 \div 4)
                ELSE ((i3 % 4) * 64) + i4]

RECURSIVE PadTo4(_)
PadTo4(t) == IF Len(t) % 4 # 0 THEN PadTo4(Append(t, ChEquals)) ELSE t

\* Base64url decoding: the padding is added again, '-' and '_' become '+'
\* and '/', then the standard decoding.
Base64UrlDecode(t) ==
    LET padded == PadTo4(t)
    IN  StdBase64Decode([i \in 1..Len(padded) |->
            IF padded[i] = ChMinus THEN ChPlus
            ELSE IF padded[i] = ChUnderscore THEN ChSlash
            ELSE padded[i]])

HasChar(t, c) == \E i \in 1..Len(t) : t[i] = c
UrlClean(t) == ~ HasChar(t, ChPlus) /\ ~ HasChar(t, ChSlash) /\ ~ HasChar(t, ChEquals)

\* The position of the first quote at or after position i, 0 if none.
ClosingQuote(t, i) ==
    LET qs == {j \in i..Len(t) : t[j] = ChQuote}
    IN  IF qs = {} THEN 0 ELSE CHOOSE j \in qs : \A k \in qs : j <= k

\* The members of a JSON object whose values are strings without escapes,
\* in the order of the text, from position i (a quote) on: a sequence of
\* <<key, value>>; a member <<<<>>, <<>>>> marks text that is no such object.
RECURSIVE JsonMembers(_, _)
JsonMembers(t, i) ==
    LET ke == ClosingQuote(t, i + 1)
        vs == ke + 2
        ve == ClosingQuote(t, vs + 1)
        bad == << <<<<>>, <<>>>> >>
    IN  IF i > Len(t) \/ t[i] # ChQuote \/ ke = 0 THEN bad
        ELSE IF ke + 2 > Len(t) \/ t[ke + 1] # 58 \/ t[vs] # ChQuote \/ ve = 0 THEN bad
        ELSE IF ve + 1 > Len(t) THEN bad
        ELSE LET member == <<SubSeq(t, i + 1, ke - 1), SubSeq(t, vs + 1, ve - 1)>>
             IN  IF HasChar(member[1], ChBackslash) \/ HasChar(member[2], ChBackslash)
                 THEN bad
                 ELSE IF t[ve + 1] = 125 /\ ve + 1 = Len(t) THEN <<member>>
                 ELSE IF t[ve + 1] = 44 THEN <<member>> \o JsonMembers(t, ve + 2)
                 ELSE bad

\* JSON.parse of the text of a flat object.
JsonParse(t) ==
    IF Len(t) < 2 \/ t[1] # 123 THEN << <<<<>>, <<>>>> >> ELSE JsonMembers(t, 2)

\* The (r, s) of a DER signature in hex: 30 len 02 len r 02 len s.
DerParse(hex) ==
    LET bs == HexToBytes(hex)
        rl == bs[4]
        sl == bs[6 + rl]
    IN  IF /\ Len(hex) % 2 = 0 /\ IsHexText(hex) /\ Len(bs) >= 8
           /\ bs[1] = 48 /\ bs[2] = Len(bs) - 2 /\ bs[3] = 2
           /\ 6 + rl <= Len(bs) /\ bs[5 + rl] = 2 /\ Len(bs) = 6 + rl + sl
        THEN [ok |-> TRUE, r |-> BytesToNat(SubSeq(bs, 5, 4 + rl)),
              s |-> BytesToNat(SubSeq(bs, 7 + rl, 6 + rl + sl))]
        ELSE [ok |-> FALSE, r |-> 0, s |-> 0]

\* The point a compressed public key stands for (the prime of the field is
\* 3 modulo 4, a square root is a power), Infinity if it is none.
DecodePoint(pubHex) ==
    LET bs == HexToBytes(pubHex)
        px == BytesToNat(SubSeq(bs, 2, Len(bs)))
        rhs == (((((px * px) % CurveP) * px) % CurveP)
                  + ((CurveA * px) % CurveP) + CurveB) % CurveP
        y0 == PowMod(rhs, (CurveP + 1) \div 4, CurveP)
        py == IF y0 % 2 = bs[1] % 2 THEN y0 ELSE (CurveP - y0) % CurveP
    IN  IF /\ IsHexText(pubHex) /\ Len(pubHex) = 2 + (2 * BNByteLength(CurveP))
           /\ bs[1] \in {2, 3} /\ px < CurveP /\ (y0 * y0) % CurveP = rhs
        THEN Point(px, py)
        ELSE Infinity

\* Standard ECDSA verification of (r, s) against the public point and the
\* digest bytes.
EcdsaVerify(digest, r, s, pub) ==
    /\ ~ pub.inf
    /\ OnCurve(pub)
    /\ r >= 1 /\ r < CurveN
    /\ s >= 1 /\ s < CurveN
    /\ LET e == BytesToNat(digest) % CurveN
           w == InvMod(s, CurveN)
           u1 == (e * w) % CurveN
           u2 == (r * w) % CurveN
           pt == PointAdd(PointMul(CurveG, u1), PointMul(pub, u2))
       IN  ~ pt.inf /\ pt.x % CurveN = r

\* The key strings of a call are both there and the public one is the one
\* derived from the private one.
KeysMatch(c) ==
    /\ calls[c].apiPrivateKey # <<>>
    /\ calls[c].apiPublicKey # <<>>
    /\ CanEncodePublic(keyFromPrivate(calls[c].apiPrivateKey))
    /\ getPublicCompressedHex(keyFromPrivate(calls[c].apiPrivateKey)) = calls[c].apiPublicKey

KeysPresent(c) == calls[c].apiPrivateKey # <<>> /\ calls[c].apiPublicKey # <<>>

(***************************************************************************)
(* The properties.                                                         *)
(***************************************************************************)
\* The compressed public key derived from the private key string of a call.
DerivedPublicKey(c) == getPublicCompressedHex(keyFromPrivate(calls[c].apiPrivateKey))

\* The call was rejected for keys that do not pair, and the error reports
\* the derived and the received public key.
RejectedAsMismatch(c) ==
    /\ calls[c].pc = "thrown"
    /\ calls[c].error.name = "Error"
    /\ calls[c].error.message = MsgMismatch
    /\ calls[c].error.expected = DerivedPublicKey(c)
    /\ calls[c].error.got = calls[c].apiPublicKey

\* C1, as stated: for every non-empty private key and non-empty public key,
\* a call whose public key is not the one derived from its private key fails
\* with the key mismatch error, which reports the derived and the received
\* public key.
C1_MismatchAnyPrivateKey ==
    \A c \in SignCalls :
        (KeysPresent(c) /\ ~ KeysMatch(c)) => RejectedAsMismatch(c)

\* C1, amended: the same for every private key whose scalar is not a
\* multiple of the order of the curve (every generated private key is such
\* a key); a private key whose scalar is one has no public key to report.
C1_MismatchReported ==
    \A c \in SignCalls :
        (/\ KeysPresent(c)
         /\ CanEncodePublic(keyFromPrivate(calls[c].apiPrivateKey))
         /\ DerivedPublicKey(c) # calls[c].apiPublicKey)
        => RejectedAsMismatch(c)

\* C1, witness: a call with the private key of one generated pair and the
\* public key of another was rejected.
C1_Witness ==
    \E c \in SignCalls : \E a \in pairs, b \in pairs :
        /\ a # b
        /\ calls[c].apiPrivateKey = a.privateKey
        /\ calls[c].apiPublicKey = b.publicKey
        /\ calls[c].pc = "thrown"
        /\ calls[c].error.expected = a.publicKey

\* C2: a call with an empty private key or an empty public key fails with
\* the missing key error, whatever the payload, and before any derivation,
\* digest or signing: the presence check is the only step it has taken.
C2_EmptyKeyRejectedFirst ==
    \A c \in SignCalls :
        ~ KeysPresent(c) =>
            /\ calls[c].pc = "thrown"
            /\ calls[c].error.name = "Error"
            /\ calls[c].error.message = MsgNotFound
            /\ calls[c].steps = <<"presence">>
            /\ calls[c].hashHex = <<>>
            /\ ~ calls[c].sig.ok
            /\ calls[c].result = NoResult

\* C2, witness: a call with a payload, a generated private key and no public
\* key was rejected.
C2_Witness ==
    \E c \in SignCalls :
        /\ calls[c].payload # <<>>
        /\ calls[c].apiPrivateKey \in {p.privateKey : p \in pairs}
        /\ calls[c].apiPublicKey = <<>>
        /\ calls[c].pc = "thrown"

\* Every field of a result is there.
CompleteResult(res) ==
    /\ res.signature # <<>>
    /\ res.details.publicKey # <<>>
    /\ res.details.scheme # <<>>
    /\ res.details.signature # <<>>
    /\ res.details.payloadHash # <<>>

\* C3: a call ends either with a complete result and no error, or with an
\* error and no part of a result; until it ends there is no part of a result
\* either; a call whose public key is not derived from its private key ends
\* with an error; no call is entered twice.
C3_AllOrNothing ==
    \A c \in SignCalls :
        /\ calls[c].pc = "returned" =>
               CompleteResult(calls[c].result) /\ calls[c].error = NoError
        /\ calls[c].pc = "thrown" =>
               calls[c].result = NoResult /\ calls[c].error.name # "none"
        /\ calls[c].pc \notin {"returned", "thrown"} =>
               calls[c].result = NoResult /\ calls[c].error = NoError
        /\ ~ KeysMatch(c) => calls[c].pc = "thrown"
        /\ calls[c].entered = 1

\* C3, witness: a call has returned a result and the keys were a pair.
C3_Witness ==
    \E c \in SignCalls :
        calls[c].pc = "returned" /\ KeysMatch(c) /\ CompleteResult(calls[c].result)

\* C4: the (r, s) in details.signature of a returned call verifies, by
\* standard ECDSA verification, against the public key of the call and the
\* digest of its payload, whose hex text is details.payloadHash.
C4_SignatureVerifies ==
    \A c \in SignCalls :
        calls[c].pc = "returned" =>
            LET d == calls[c].result.details
                rs == DerParse(d.signature)
                digest == SubtleDigest(Utf8(calls[c].payload))
            IN  /\ rs.ok
                /\ IsHexText(d.payloadHash)
                /\ HexToBytes(d.payloadHash) = digest
                /\ EcdsaVerify(digest, rs.r, rs.s, DecodePoint(calls[c].apiPublicKey))

\* C4, witness: a returned call whose digest is not below the order of the
\* curve and whose r has its high bit set.
C4_Witness ==
    \E c \in SignCalls :
        /\ calls[c].pc = "returned"
        /\ BytesToNat(SubtleDigest(Utf8(calls[c].payload))) >= CurveN
        /\ calls[c].sig.r >= 32768

\* C5, as stated: every pair that generateApiKeyPair has returned has a
\* public key of the fixed compressed length (66 characters on P-256, two
\* for the leading byte and two for each byte of the field here) that
\* starts with 02 or 03, and a private key of the fixed length (64
\* characters on P-256, two for each byte of the order here), whatever the
\* scalar.
C5_FixedKeyLengths ==
    \A p \in pairs :
        /\ IsHexText(p.publicKey)
        /\ Len(p.publicKey) = 2 + (2 * BNByteLength(CurveP))
        /\ HexToBytes(p.publicKey)[1] \in {2, 3}
        /\ IsHexText(p.privateKey)
        /\ Len(p.privateKey) = 2 * BNByteLength(CurveN)

\* C6: for every pair that generateApiKeyPair has returned, the compressed
\* public key derived from the private key string, as signPayloadWithApiKey
\* derives it, is the public key of the pair; and a call with the two keys
\* of a pair is not rejected.
C6_GeneratedPairMatches ==
    /\ \A p \in pairs :
          /\ CanEncodePublic(keyFromPrivate(p.privateKey))
          /\ getPublicCompressedHex(keyFromPrivate(p.privateKey)) = p.publicKey
    /\ \A c \in SignCalls :
          [publicKey |-> calls[c].apiPublicKey, privateKey |-> calls[c].apiPrivateKey] \in pairs
              => calls[c].pc # "thrown"

\* C6, witness: a call with the two keys of a generated pair has returned,
\* and the private key string is shorter than the order of the curve.
C6_Witness ==
    \E c \in SignCalls :
        /\ [publicKey |-> calls[c].apiPublicKey, privateKey |-> calls[c].apiPrivateKey] \in pairs
        /\ Len(calls[c].apiPrivateKey) < 2 * BNByteLength(CurveN)
        /\ calls[c].pc = "returned"

\* C7: a call with a pair of keys that has ended has returned, whatever the
\* payload, the empty one included; its details.payloadHash is the hex text
\* of the digest of the payload, and that text is what was handed to the
\* signing step, which read the digest from it.
C7_PayloadHashIsSignedDigest ==
    \A c \in SignCalls :
        (KeysMatch(c) /\ Settled(c)) =>
            LET digest == SubtleDigest(Utf8(calls[c].payload))
                hash == calls[c].result.details.payloadHash
            IN  /\ calls[c].pc = "returned"
                /\ Len(hash) = 2 * DigestLen
                /\ IsHexText(hash)
                /\ HexToBytes(hash) = digest
                /\ calls[c].signArg = hash
                /\ BNFromHex(calls[c].signArg) = BytesToNat(digest)

\* C7, witness: a call with the empty payload has returned.
C7_Witness ==
    \E c \in SignCalls :
        /\ calls[c].payload = <<>>
        /\ calls[c].pc = "returned"
        /\ calls[c].result.details.payloadHash # <<>>

\* C8: the signature string of a returned call, base64url-decoded and
\* parsed, is an object with exactly the members publicKey, scheme and
\* signature, in this order; publicKey is the public key of the call and
\* details.publicKey, scheme is the scheme string and details.scheme,
\* signature is details.signature, the DER hex of the (r, s) produced.
C8_EnvelopeRoundTrip ==
    \A c \in SignCalls :
        calls[c].pc = "returned" =>
            LET res == calls[c].result
                members == JsonParse(Base64UrlDecode(res.signature))
                rs == DerParse(res.details.signature)
            IN  /\ members = << <<KeyPublicKey, calls[c].apiPublicKey>>,
                                <<KeyScheme, SignatureScheme>>,
                                <<KeySignature, res.details.signature>> >>
                /\ res.details.publicKey = calls[c].apiPublicKey
                /\ res.details.scheme = SignatureScheme
                /\ rs.ok /\ rs.r = calls[c].sig.r /\ rs.s = calls[c].sig.s

\* C8, witness: a returned call whose s has its high bit set in one byte,
\* so that its DER form has a zero byte in front.
C8_Witness ==
    \E c \in SignCalls :
        /\ calls[c].pc = "returned"
        /\ calls[c].sig.s >= 128 /\ calls[c].sig.s < 256
        /\ Len(JsonParse(Base64UrlDecode(calls[c].result.signature))) = 3

BytesCalls == {c \in CallIds : calls[c].fn = "toBase64UrlBytes" /\ calls[c].pc = "returned"}
StringCalls == {c \in CallIds : calls[c].fn = "toBase64Url" /\ calls[c].pc = "returned"}

\* C9: base64url decoding of toBase64UrlBytes(b) gives b back, encoding the
\* decoded bytes gives the text back, and no other buffer has the same text.
C9_Base64UrlRoundTrip ==
    \A c \in BytesCalls :
        /\ Base64UrlDecode(calls[c].ret) = calls[c].arg
        /\ toBase64UrlBytes(Base64UrlDecode(calls[c].ret)) = calls[c].ret
        /\ \A b \in Buffers : toBase64UrlBytes(b) = calls[c].ret => b = calls[c].arg

\* C9, witness: a buffer whose text had padding, and has '-' and '_' in it.
C9_Witness ==
    \E c \in BytesCalls :
        /\ Len(calls[c].arg) % 3 # 0
        /\ HasChar(calls[c].ret, ChMinus)
        /\ HasChar(calls[c].ret, ChUnderscore)

\* The base64url form of a standard base64 text: as long as the text
\* without its trailing '=', with '-' for every '+' and '_' for every '/'.
IsUrlFormOf(t, std) ==
    /\ Len(t) <= Len(std)
    /\ \A i \in 1..Len(std) :
          IF i <= Len(t)
          THEN t[i] = (IF std[i] = ChPlus THEN ChMinus
                       ELSE IF std[i] = ChSlash THEN ChUnderscore
                       ELSE std[i])
          ELSE std[i] = ChEquals
    /\ (Len(t) > 0 => t[Len(t)] # ChEquals)

\* C10: the text toBase64Url and toBase64UrlBytes return, and the signature
\* string of a returned call, have no '+', no '/' and no '=' anywhere: the
\* text is the standard base64 text of the bytes with '-' for '+', '_' for
\* '/' and without the trailing '='.
C10_UrlSafeAlphabet ==
    /\ \A c \in BytesCalls :
          UrlClean(calls[c].ret) /\ IsUrlFormOf(calls[c].ret, btoa(calls[c].arg))
    /\ \A c \in StringCalls :
          UrlClean(calls[c].ret) /\ IsUrlFormOf(calls[c].ret, btoa(Utf8(calls[c].arg)))
    /\ \A c \in SignCalls :
          calls[c].pc = "returned" => UrlClean(calls[c].result.signature)

\* C10, witness: a text whose standard base64 form has more than one '/'
\* and padding.
C10_Witness ==
    \E c \in BytesCalls \cup StringCalls :
        LET std == btoa(IF calls[c].fn = "toBase64Url" THEN Utf8(calls[c].arg) ELSE calls[c].arg)
        IN  /\ Cardinality({i \in 1..Len(std) : std[i] = ChSlash}) > 1
            /\ HasChar(std, ChEquals)
            /\ ~ HasChar(calls[c].ret, ChSlash)

LocalCalls == {c \in CallIds : calls[c].fn = "PasskeySignup.toBase64Url"}
AllStringCalls == {c \in CallIds : calls[c].fn = "toBase64Url"}

\* C11, as stated: for every string, toBase64Url returns the text that
\* toBase64UrlBytes returns for the UTF-8 bytes of the string; for every
\* buffer, the encoder of the PasskeySignup component returns the text
\* that toBase64UrlBytes returns for the buffer.
C11_EncodersAgreeAnyInput ==
    /\ \A c \in AllStringCalls :
          /\ calls[c].pc = "returned"
          /\ calls[c].ret = toBase64UrlBytes(Utf8(calls[c].arg))
    /\ \A c \in LocalCalls :
          /\ calls[c].pc = "returned"
          /\ calls[c].ret = toBase64UrlBytes(calls[c].arg)

\* C11, amended: the same for every string without a lone surrogate and
\* for every buffer that has no more bytes than a call takes arguments;
\* for the other strings and buffers the call throws.
C11_EncodersAgree ==
    /\ \A c \in AllStringCalls :
          IF WellFormed(calls[c].arg)
          THEN /\ calls[c].pc = "returned"
               /\ calls[c].ret = toBase64UrlBytes(Utf8(calls[c].arg))
          ELSE calls[c].pc = "thrown" /\ calls[c].error.name = "URIError"
    /\ \A c \in LocalCalls :
          IF Len(calls[c].arg) <= ArgumentLimit
          THEN /\ calls[c].pc = "returned"
               /\ calls[c].ret = toBase64UrlBytes(calls[c].arg)
          ELSE calls[c].pc = "thrown" /\ calls[c].error.name = "RangeError"

\* C11, witness: toBase64Url has returned for a string with a surrogate
\* pair and a character between U+0080 and U+00FF.
C11_Witness ==
    \E c \in AllStringCalls :
        /\ calls[c].pc = "returned"
        /\ \E i \in 1..Len(calls[c].arg) : PairStartsAt(calls[c].arg, i)
        /\ \E i \in 1..Len(calls[c].arg) : calls[c].arg[i] = 233
        /\ Len(calls[c].ret) = 8

Sha256Calls == {c \in CallIds : calls[c].fn = "sha256" /\ calls[c].pc = "returned"}

\* C12: for every input string, the empty one included, sha256 returns a
\* text of fixed length (64 characters for the 32 bytes of SHA-256, two for
\* each byte of the digest here), all of them in 0-9a-f, that is the
\* two-digit hex of every byte of the digest in order.
C12_DigestHexFormat ==
    \A c \in Sha256Calls :
        LET digest == SubtleDigest(Utf8(calls[c].arg))
        IN  /\ Len(calls[c].ret) = 2 * DigestLen
            /\ \A i \in 1..Len(calls[c].ret) :
                  \/ (calls[c].ret[i] >= 48 /\ calls[c].ret[i] <= 57)
                  \/ (calls[c].ret[i] >= 97 /\ calls[c].ret[i] <= 102)
            /\ \A i \in 1..DigestLen :
                  (StrictHexValue(calls[c].ret[(2 * i) - 1]) * 16)
                      + StrictHexValue(calls[c].ret[2 * i]) = digest[i]

\* C12, witness: sha256 has returned for a string whose digest has a byte
\* below 0x10 and a byte with a hex digit above 9.
C12_Witness ==
    \E c \in Sha256Calls :
        LET digest == SubtleDigest(Utf8(calls[c].arg))
        IN  /\ \E i \in 1..DigestLen : digest[i] < 16
            /\ \E i \in 1..DigestLen : digest[i] % 16 > 9

\* C13: the s of the signature of a returned call, and the s in its DER
\* text, is at most half the order of the curve.
C13_LowS ==
    \A c \in SignCalls :
        calls[c].pc = "returned" =>
            /\ calls[c].sig.s >= 1
            /\ calls[c].sig.s <= CurveNH
            /\ DerParse(calls[c].result.details.signature).s <= CurveNH

\* C13, witness: a returned call whose nonce gave an s in the upper half,
\* which sign replaced by the order less s.
C13_Witness ==
    \E c \in SignCalls :
        /\ calls[c].pc = "returned"
        /\ \E k \in NonceDraws :
              LET raw == SignAttempt(calls[c].key, calls[c].signArg, k, FALSE)
              IN  /\ raw.ok
                  /\ raw.s > CurveNH
                  /\ raw.r = calls[c].sig.r
                  /\ CurveN - raw.s = calls[c].sig.s

IsHexString(t) == \A i \in 1..Len(t) : IsHexChar(t[i])

\* A private key string that is not the hex text of fixed length of a
\* scalar from 1 to the order less 1.
MalformedPrivateKey(k) ==
    \/ Len(k) # 2 * BNByteLength(CurveN)
    \/ ~ IsHexString(k)
    \/ BNFromHex(k) = 0
    \/ BNFromHex(k) >= CurveN

\* A public key string that is not the hex text of a compressed point.
MalformedPublicKey(k) ==
    \/ Len(k) # 2 + (2 * BNByteLength(CurveP))
    \/ ~ IsHexString(k)
    \/ ~ (<<k[1], k[2]>> \in {<<48, 50>>, <<48, 51>>})

\* C14, as stated: a call with two non-empty key strings of which one is
\* malformed fails with the error of an empty key, not with the error of a
\* mismatch.
C14_MalformedKeyRejected ==
    \A c \in SignCalls :
        (/\ KeysPresent(c)
         /\ \/ MalformedPrivateKey(calls[c].apiPrivateKey)
            \/ MalformedPublicKey(calls[c].apiPublicKey))
        => /\ calls[c].pc = "thrown"
           /\ calls[c].error.name = "Error"
           /\ calls[c].error.message = MsgNotFound

\* C15, as stated: a call whose private key string reads as zero or as a
\* number not below the order of the curve fails with the error of the
\* curve arithmetic, whatever the public key, and returns no signature.
C15_ScalarOutOfRangeFails ==
    \A c \in SignCalls :
        (/\ KeysPresent(c)
         /\ \/ BNFromHex(calls[c].apiPrivateKey) = 0
            \/ BNFromHex(calls[c].apiPrivateKey) >= CurveN)
        => /\ calls[c].pc = "thrown"
           /\ calls[c].error.name = "TypeError"
           /\ calls[c].result = NoResult

\* The outcome the call c has when it runs alone with its payload and keys.
OutcomeAlone(c) ==
    LET entry == SignEntry(calls[c].apiPrivateKey, calls[c].apiPublicKey)
        hashHex == sha256(calls[c].payload)
    IN  CASE calls[c].pc = "thrown" ->
                /\ entry.pc = "thrown"
                /\ calls[c].error = entry.error
                /\ calls[c].result = NoResult
          [] calls[c].pc = "digest" -> entry.pc = "digest"
          [] calls[c].pc = "hashed" -> entry.pc = "digest" /\ calls[c].hashHex = hashHex
          [] calls[c].pc = "returned" ->
                /\ entry.pc = "digest"
                /\ calls[c].error = NoError
                /\ \E k \in ConcurrentNonces :
                      /\ keySign(entry.key, hashHex, k).ok
                      /\ calls[c].result =
                            SignResult(calls[c].apiPublicKey, hashHex,
                                       keySign(entry.key, hashHex, k))
          [] OTHER -> FALSE

\* C16: in every interleaving of two calls of signPayloadWithApiKey and of
\* calls of generateApiKeyPair, each call of signPayloadWithApiKey is where
\* it would be, with the error or the result it would have, had it run
\* alone: a function of its own payload and keys.
C16_CallsIndependent ==
    \A c \in SignCalls : OutcomeAlone(c)

\* C16, witness: one call has returned while the other, with another
\* payload and other keys, was suspended at its digest, and a pair was
\* generated.
C16_Witness ==
    /\ calls["c1"].fn = "signPayloadWithApiKey" /\ calls["c1"].pc = "returned"
    /\ calls["c2"].fn = "signPayloadWithApiKey" /\ calls["c2"].pc = "hashed"
    /\ calls["c1"].payload # calls["c2"].payload
    /\ calls["c1"].apiPrivateKey # calls["c2"].apiPrivateKey
    /\ Cardinality(pairs) = 2

\* The steps of signPayloadWithApiKey, in the order of the function.
StepOrder == <<"presence", "derive", "compare", "digest", "sign", "encode">>

\* C17: the steps a call has taken are the first steps of the order
\* presence check, derivation and comparison of the public key, digest,
\* signing, encoding; a returned call has taken all of them; a call whose
\* comparison failed has taken no step after it: it has no digest and no
\* signature.
C17_StepOrder ==
    \A c \in SignCalls :
        /\ Len(calls[c].steps) <= Len(StepOrder)
        /\ calls[c].steps = SubSeq(StepOrder, 1, Len(calls[c].steps))
        /\ calls[c].pc = "returned" => calls[c].steps = StepOrder
        /\ (calls[c].pc = "thrown" /\ calls[c].error.message = MsgMismatch) =>
              /\ calls[c].steps = <<"presence", "derive", "compare">>
              /\ calls[c].hashHex = <<>>
              /\ calls[c].signArg = <<>>
              /\ calls[c].sig = NoSig
              /\ calls[c].result = NoResult

\* C17, witness: a call with the private key of a pair and a public key
\* that is no hex text has stopped at the comparison.
C17_Witness ==
    \E c \in SignCalls :
        /\ calls[c].pc = "thrown"
        /\ calls[c].error.message = MsgMismatch
        /\ calls[c].steps = <<"presence", "derive", "compare">>
        /\ \E p \in pairs : p.privateKey = calls[c].apiPrivateKey
        /\ ~ IsHexString(calls[c].apiPublicKey)

\* C18: every submit request the wizard has sent carries, with its
\* payloadId, the signature that signPayloadWithApiKey gives for the
\* payloadToSign of the prepare response with this payloadId and the keys
\* of the configuration.
C18_SubmitCarriesOwnSignature ==
    \A req \in wiz.requests :
        \E k \in UiNonces :
            LET r == signPayloadWithApiKey(PayloadOf(req.payloadId), config.apiPrivateKey,
                                           config.apiPublicKey, k)
            IN  ~ r.thrown /\ r.accepted /\ r.result.signature = req.signature

\* C18, witness: a submit request was sent for the second prepare response
\* after one was sent for the first, and the wizard went back in between.
C18_Witness ==
    /\ \E req \in wiz.requests : req.payloadId = 1
    /\ \E req \in wiz.requests : req.payloadId = 2
    /\ wiz.creates = 1
    /\ \A k1, k2 \in UiNonces :
          signPayloadWithApiKey(PayloadOf(1), config.apiPrivateKey, config.apiPublicKey, k1).result.signature
            # signPayloadWithApiKey(PayloadOf(2), config.apiPrivateKey, config.apiPublicKey, k2).result.signature

\* C19, as stated: in every state of the wizard the data of the step shown
\* is there: passkeyData at "prepare", prepareResponse at "sign",
\* prepareResponse and signatureData at "submit", result at "complete".
C19_StepDataPresent ==
    /\ wiz.step = "prepare" => ~ wiz.passkeyData.null
    /\ wiz.step = "sign" => ~ wiz.prepareResponse.null
    /\ wiz.step = "submit" => (~ wiz.prepareResponse.null /\ ~ wiz.signatureData.null)
    /\ wiz.step = "complete" => ~ wiz.result.null
    /\ WizPanelShown \/ WizBackShown

\* The step before a step of the one-click flows.
C20_Previous(step) ==
    CASE step = "prepare" -> "credential"
      [] step = "sign" -> "prepare"
      [] step = "submit" -> "sign"
      [] OTHER -> "none"

\* C20: in the one-click flows a step other than the credential creation
\* starts right after the step before it has succeeded, a step settles
\* right after it has started, a new run starts only where the last one has
\* ended, the success state is set right after an OK submit response, and
\* the toast or the step "complete" is there only where it has been set.
C20_OneClickOrder ==
    /\ \A i \in 1..Len(oc.log) :
          LET ev == oc.log[i]
              before == IF i = 1 THEN OcEvent("none", "none") ELSE oc.log[i - 1]
          IN  /\ (ev.what = "start" /\ ev.step # "credential")
                    => before = OcEvent(C20_Previous(ev.step), "ok")
              /\ (ev.what = "start" /\ ev.step = "credential")
                    => (i = 1 \/ before.what = "fail" \/ before.step = "success")
              /\ ev.what \in {"ok", "fail"} => before = OcEvent(ev.step, "start")
              /\ ev.step = "success" => before = OcEvent("submit", "ok")
    /\ (oc.showToast \/ oc.step = "complete")
          => \E i \in 1..Len(oc.log) : oc.log[i].step = "success"

\* C20, witness: a run has failed at the signing or at a request and a run
\* has reached the success state.
C20_Witness ==
    /\ \E i \in 1..Len(oc.log) :
          oc.log[i].what = "fail" /\ oc.log[i].step \in {"prepare", "sign", "submit"}
    /\ \E i \in 1..Len(oc.log) : oc.log[i].step = "success"
    /\ oc.showToast \/ oc.step = "complete"

\* A step of the wizard in which an operation fails: the credential
\* creation, a request or the signing throws.
C21_OperationFails ==
    \/ \E outcome \in CredentialOutcomes \ {"credential"} : WizCreateSettle(outcome)
    \/ \E outcome \in FetchOutcomes \ {"ok"} : WizPrepareSettle(outcome)
    \/ \E k \in UiNonces :
          /\ WizSignSettle(k)
          /\ signPayloadWithApiKey(wiz.op.payload, config.apiPrivateKey,
                                   config.apiPublicKey, k).thrown
    \/ \E outcome \in FetchOutcomes \ {"ok", "okNull"} : WizSubmitSettle(outcome)

\* C21: a failing operation of the wizard leaves the step, passkeyData,
\* prepareResponse, signatureData and result as they are, sets error, sets
\* loading to false and leaves no operation in flight; error goes back to
\* null only in a step that starts an operation or in reset.
C21_FailureKeepsState ==
    [][/\ C21_OperationFails
          => /\ wiz'.step = wiz.step
             /\ wiz'.passkeyData = wiz.passkeyData
             /\ wiz'.prepareResponse = wiz.prepareResponse
             /\ wiz'.signatureData = wiz.signatureData
             /\ wiz'.result = wiz.result
             /\ wiz'.error # ""
             /\ ~ wiz'.loading
             /\ wiz'.op = NoOp
       /\ (wiz.error # "" /\ wiz'.error = "")
          => \/ WizClickCreate \/ WizClickPrepare \/ WizClickSign \/ WizClickSubmit
             \/ WizReset]_vars

\* C21, witness: the submit request has failed where the credential, the
\* prepare response and the signature are stored.
C21_Witness ==
    /\ wiz.step = "submit" /\ wiz.submits = 1 /\ wiz.op = NoOp
    /\ wiz.error # "" /\ ~ wiz.loading
    /\ ~ wiz.passkeyData.null /\ ~ wiz.prepareResponse.null /\ ~ wiz.signatureData.null
    /\ wiz.result.null

\* The position of a step in the order of the wizard.
C22_Index(step) ==
    CASE step = "create" -> 0
      [] step = "prepare" -> 1
      [] step = "sign" -> 2
      [] step = "submit" -> 3
      [] OTHER -> 4

\* C22, as stated: every forward change of the step of the wizard goes to
\* the step right after the one displayed at the moment of the change.
C22_NoStageSkipped ==
    [][C22_Index(wiz'.step) > C22_Index(wiz.step)
          => C22_Index(wiz'.step) = C22_Index(wiz.step) + 1]_vars

====
